---- MODULE Spec2Model ----
(***************************************************************************)
(* Model of torn-oc-history: the paginated crime-history fetch, the        *)
(* most-recent-wins statistics reducer, the member selection, the report   *)
(* renderer and the run-once / ticker scheduler of main.                   *)
(*                                                                         *)
(* Strings that the program compares (member names, position labels) are   *)
(* sequences of ASCII codes, so that strings.ToLower and Go's bytewise     *)
(* string order are computed and not assumed.                              *)
(***************************************************************************)
EXTENDS Integers, Sequences, FiniteSets, TLC

VARIABLES
    pc,             \* where main / runReports stands
    allFlag,        \* --all
    bothFlag,       \* --both
    outputDest,     \* --output
    interval,       \* --interval
    tickPending,    \* a tick waits in ticker.C
    passes,         \* runReports invocations started so far (counted up to MaxPasses)
    memberFetches,  \* fetchMembers calls of this pass
    members,        \* result of fetchMembers
    selectedAll,    \* map id -> Member
    selectedNoOC,   \* map id -> Member
    selected,       \* map id -> Member
    offset,         \* fetchAllCrimes: offset of the next request
    all,            \* fetchAllCrimes: accumulator
    requests,       \* the crime-history requests of this pass and their answers
    fetchErr,       \* error of this pass's fetches ("nil" when none)
    crimes,         \* result of fetchAllCrimes as seen by runReports
    statsAll,       \* MemberStats built by the reducer
    target,         \* the report being emitted: "noc" (--range-noc) or "all" (--range-all)
    lines,          \* per report, the result of generateReportLines in this pass
    stdout,         \* lines printed in this pass
    sheet,          \* visible rows of the two sheet ranges
    sinkCalls       \* ClearRange / UpdateRange calls made in this pass, each with
                    \* the rows the range showed before the call

flagVars == <<allFlag, bothFlag, outputDest, interval>>

selVars == <<members, selectedAll, selectedNoOC, selected>>

fetchVars == <<offset, all, requests, fetchErr, crimes>>

outVars == <<lines, stdout, sheet, sinkCalls>>

vars == <<pc, flagVars, tickPending, passes, memberFetches, selVars, fetchVars,
          statsAll, target, outVars>>

-----------------------------------------------------------------------------
(* Bounds *)

\* crime records in the lists the reducer specification folds
MaxCrimes == 2

\* page requests of one fetch the model follows
MaxRequests == 4

\* members in the rosters of the report specification
MaxRoster == 3

\* passes are counted up to this number
MaxPasses == 2

\* members in the rosters of the filter specification
MaxFilterRoster == 2

-----------------------------------------------------------------------------
(* Strings *)

\* strings.ToLower on one ASCII byte
ToLowerByte(c) == IF c >= 65 /\ c <= 90 THEN c + 32 ELSE c

\* strings.ToLower
ToLower(s) == [i \in 1..Len(s) |-> ToLowerByte(s[i])]

Min(a, b) == IF a <= b THEN a ELSE b

Max(a, b) == IF a >= b THEN a ELSE b

\* Go's s < t on strings: bytewise lexicographic, a proper prefix is smaller
StrLess(s, t) ==
    \/ \E i \in 1..Min(Len(s), Len(t)) :
          /\ s[i] < t[i]
          /\ \A j \in 1..(i - 1) : s[j] = t[j]
    \/ /\ Len(s) < Len(t)
       /\ \A j \in 1..Len(s) : s[j] = t[j]

-----------------------------------------------------------------------------
(* Maps *)

EmptyMap == << >>

MaxOf(S) == CHOOSE m \in S : \A x \in S : x <= m

MapPut(f, k, v) == [x \in (DOMAIN f) \cup {k} |-> IF x = k THEN v ELSE f[x]]

-----------------------------------------------------------------------------
(* Statistics reducer *)

\* RateInfo{}
ZeroRateInfo == [Rate |-> 0, ExecutedAt |-> 0]

\* mutant: every slot overwrites the stored entry
AlwaysOverwrite(crime, st) == TRUE

\* mutant: an older record overwrites the stored entry
OlderOverwrites(crime, st) == crime.ExecutedAt < st.ExecutedAt

\* mutant: a record as recent as the stored one overwrites it
NotOlderOverwrites(crime, st) == crime.ExecutedAt >= st.ExecutedAt

\* if crime.ExecutedAt > st.ExecutedAt
MoreRecent(crime, st) == crime.ExecutedAt > st.ExecutedAt

\* body of the inner loop of the reducer, for one slot of one crime
FoldSlot(stats, crime, slot) ==
    LET uid == slot.User.ID
        d   == crime.Difficulty
        p   == slot.Position
        s1  == IF uid \in DOMAIN stats
                 THEN stats
                 ELSE MapPut(stats, uid, EmptyMap)
        s2  == IF d \in DOMAIN s1[uid]
                 THEN s1
                 ELSE MapPut(s1, uid, MapPut(s1[uid], d, EmptyMap))
        s3  == IF p \in DOMAIN s2[uid][d]
                 THEN s2
                 ELSE MapPut(s2, uid, MapPut(s2[uid], d,
                                             MapPut(s2[uid][d], p, ZeroRateInfo)))
        st  == s3[uid][d][p]
        new == [Rate |-> slot.CheckpointPassRate, ExecutedAt |-> crime.ExecutedAt]
    IN  IF MoreRecent(crime, st)
          THEN MapPut(s3, uid, MapPut(s3[uid], d, MapPut(s3[uid][d], p, new)))
          ELSE s3

\* for _, slot := range crime.Slots, from slot k on
RECURSIVE FoldSlots(_, _, _)
FoldSlots(stats, crime, k) ==
    IF k > Len(crime.Slots)
      THEN stats
      ELSE FoldSlots(FoldSlot(stats, crime, crime.Slots[k]), crime, k + 1)

\* for _, crime := range crimes, from crime k on
RECURSIVE FoldCrimes(_, _, _)
FoldCrimes(stats, cs, k) ==
    IF k > Len(cs)
      THEN stats
      ELSE FoldCrimes(FoldSlots(stats, cs[k], 1), cs, k + 1)

\* statsAll := make(MemberStats) followed by the two nested loops
Reduce(cs) == FoldCrimes(EmptyMap, cs, 1)

\* mutant: the slots of the selected members are the ones skipped
FilterSkipsSelected(uid, sel) == uid \notin DOMAIN sel

\* the single-mode reducer: if _, ok := selected[uid]; !ok { continue }
InFilter(uid, sel) == uid \in DOMAIN sel

\* body of the inner loop of the single-mode reducer
FoldSlotFiltered(stats, crime, slot, sel) ==
    IF InFilter(slot.User.ID, sel) THEN FoldSlot(stats, crime, slot) ELSE stats

RECURSIVE FoldSlotsFiltered(_, _, _, _)
FoldSlotsFiltered(stats, crime, k, sel) ==
    IF k > Len(crime.Slots)
      THEN stats
      ELSE FoldSlotsFiltered(FoldSlotFiltered(stats, crime, crime.Slots[k], sel),
                             crime, k + 1, sel)

RECURSIVE FoldCrimesFiltered(_, _, _, _)
FoldCrimesFiltered(stats, cs, k, sel) ==
    IF k > Len(cs)
      THEN stats
      ELSE FoldCrimesFiltered(FoldSlotsFiltered(stats, cs[k], 1, sel), cs, k + 1, sel)

\* stats := make(MemberStats) followed by the two nested loops with the filter
ReduceFiltered(cs, sel) == FoldCrimesFiltered(EmptyMap, cs, 1, sel)

-----------------------------------------------------------------------------
(* Crime history fetcher *)

\* const pageSize = 100
pageSize == 100

\* mutant: the offset advances by the number of records received
NextOffsetByReceived(off, page) == off + Len(page)

\* offset += pageSize
NextOffset(off, page) == off + pageSize

\* mutant: the records accumulated so far are returned with the error
PartialOnFailure(acc) == acc

\* return nil, err
ResultOnFailure(acc) == << >>

\* the ways one page request fails: http.Get error, non-200 status, Decode error
FetchFailures == {"transport", "status", "decode"}

-----------------------------------------------------------------------------
(* Member selector *)

\* for _, m := range members { selectedAll[m.ID] = m }
SelectAll(roster) ==
    [id \in {roster[i].ID : i \in 1..Len(roster)} |->
        roster[MaxOf({i \in 1..Len(roster) : roster[i].ID = id})]]

\* mutant: the enrolled members are selected
SelectInOC(roster) ==
    LET keep == {i \in 1..Len(roster) : roster[i].IsInOC}
    IN  [id \in {roster[i].ID : i \in keep} |->
            roster[MaxOf({i \in keep : roster[i].ID = id})]]

\* for _, m := range members { if !m.IsInOC { selectedNoOC[m.ID] = m } }
SelectNoOC(roster) ==
    LET keep == {i \in 1..Len(roster) : ~roster[i].IsInOC}
    IN  [id \in {roster[i].ID : i \in keep} |->
            roster[MaxOf({i \in keep : roster[i].ID = id})]]

\* the selection used for the empty check and for the single report
Selected(both, allF, selAll, selNoOC) ==
    IF both THEN selNoOC ELSE IF allF THEN selAll ELSE selNoOC

\* mutant: an empty selection ends the pass in every mode
EmptyAlwaysShortCircuits(sel, both) == DOMAIN sel = {}

\* if len(selected) == 0 && !*bothFlag
EmptyShortCircuit(sel, both) == DOMAIN sel = {} /\ ~both

TextLine(t) == [kind |-> "text", text |-> t]

NoMatchLine == TextLine("No matching faction members found.")

-----------------------------------------------------------------------------
(* Report renderer *)

\* mutant: the names are compared as they are
NameLessCaseSensitive(a, b) == StrLess(a, b)

\* the less function given to sort.Slice
NameLess(a, b) == StrLess(ToLower(a), ToLower(b))

\* the sequences over the set S without repetition
Orders(S) ==
    {f \in [1..Cardinality(S) -> S] : \A i, j \in 1..Cardinality(S) : f[i] = f[j] => i = j}

\* entries after sort.Slice: the map is iterated in any order and the sort is
\* not stable, so every order of the ids that NameLess does not contradict
SortedEntries(sel) ==
    {f \in Orders(DOMAIN sel) :
        \A i, j \in 1..Len(f) : i < j => ~NameLess(sel[f[j]].Name, sel[f[i]].Name)}

\* sort.Ints: the numbers of S in ascending order
SortInts(S) == CHOOSE f \in Orders(S) : \A i, j \in 1..Len(f) : i < j => f[i] < f[j]

\* sort.Strings: the strings of S in ascending order
SortStrings(S) ==
    CHOOSE f \in Orders(S) : \A i, j \in 1..Len(f) : i < j => StrLess(f[i], f[j])

HeaderLine(now) == [kind |-> "header", at |-> now]

\* the line ""
BlankLine == [kind |-> "blank"]

\* "Member: %s (%d) - Last seen: %s (%s)"
MemberLine(m) ==
    [kind |-> "member", name |-> m.Name, id |-> m.ID,
     status |-> m.LastAction.Status, relative |-> m.LastAction.Relative]

NoHistoryLine == TextLine("  No historical OC participation recorded.")

\* "  Difficulty %d:"
DifficultyLine(d) == [kind |-> "difficulty", difficulty |-> d]

\* mutant: the percentage and the timestamp are shown for every rate
PositionLineAlwaysPercent(p, st) ==
    [kind |-> "position", position |-> p, shown |-> "rate",
     percent |-> st.Rate, executedAt |-> st.ExecutedAt]

\* "    %-15s -"  or  "    %-15s %3d%% (executed_at %s)"
PositionLine(p, st) ==
    IF st.Rate = 0
      THEN [kind |-> "position", position |-> p, shown |-> "-"]
      ELSE [kind |-> "position", position |-> p, shown |-> "rate",
            percent |-> st.Rate, executedAt |-> st.ExecutedAt]

RECURSIVE Flatten(_)
Flatten(ss) == IF ss = << >> THEN << >> ELSE Head(ss) \o Flatten(Tail(ss))

\* the lines of one difficulty of one member
DifficultyLines(positions, d) ==
    LET posNames == SortStrings(DOMAIN positions)
    IN  <<DifficultyLine(d)>> \o
        [k \in 1..Len(posNames) |-> PositionLine(posNames[k], positions[posNames[k]])]

\* mutant: no blank line before the first member block
SeparatorBetweenOnly(k) == IF k = 1 THEN << >> ELSE <<BlankLine>>

\* lines = append(lines, "") at the head of every member block
Separator(k) == <<BlankLine>>

\* the body of the loop over entries, for the k-th entry
MemberBlock(sel, stats, id, k) ==
    Separator(k) \o <<MemberLine(sel[id])>> \o
    (IF id \notin DOMAIN stats
       THEN <<NoHistoryLine>>
       ELSE LET diffs == SortInts(DOMAIN stats[id])
            IN  Flatten([n \in 1..Len(diffs) |->
                            DifficultyLines(stats[id][diffs[n]], diffs[n])]))

\* generateReportLines, the entries being in the order `entries`
ReportLines(sel, stats, entries, now) ==
    <<HeaderLine(now)>> \o
    Flatten([k \in 1..Len(entries) |-> MemberBlock(sel, stats, entries[k], k)])

\* the results generateReportLines can give
generateReportLines(sel, stats, now) ==
    {ReportLines(sel, stats, entries, now) : entries \in SortedEntries(sel)}

\* mutant: the rows start at the second line
RowsWithoutHeader(ls) == [i \in 1..(Len(ls) - 1) |-> <<ls[i + 1]>>]

\* buildSheetRows: one single-cell row per line
buildSheetRows(ls) == [i \in 1..Len(ls) |-> <<ls[i]>>]

\* the two reports and the sheet ranges they go to
Targets == {"noc", "all"}

NoLines == [t \in Targets |-> << >>]

\* the report a single-mode pass emits, the first report of a "both" pass
FirstTarget(both, allF) == IF both THEN "noc" ELSE IF allF THEN "all" ELSE "noc"

\* the selection rendered for a report
SelectionOf(t, both, sel, selAll, selNoOC) ==
    IF both THEN (IF t = "noc" THEN selNoOC ELSE selAll) ELSE sel

\* the visible rows of a range after ClearRange succeeded
Cleared(old) == << >>

\* the visible rows of a range after UpdateRange(rows) succeeded: the rows are
\* written from the top of the range, rows below them stay
Updated(old, rows) ==
    [i \in 1..Max(Len(old), Len(rows)) |-> IF i <= Len(rows) THEN rows[i] ELSE old[i]]

\* mutant: a failed clear ends the pass
ClearFailureReturns(ok) == IF ok THEN "write" ELSE "returned"

\* if err := ClearRange(...); err != nil { log.Error() }: UpdateRange follows
AfterClear(ok) == "write"

\* mutant: a failed fetch is logged and the pass goes on
FailureGoesOn == "reduce"

\* mutant: a failed fetch ends the process (log.Fatal)
FailureExits == "exited"

\* log.Error()...; return
AfterFailure == "returned"

-----------------------------------------------------------------------------
(* Inputs *)

posA == <<65>>
posB == <<66>>

MkSlot(uid, p, r) == [Position |-> p, User |-> [ID |-> uid], CheckpointPassRate |-> r]

MkCrime(id, d, at, slots) ==
    [ID |-> id, Difficulty |-> d, ExecutedAt |-> at, Slots |-> slots]

MkMember(id, name, inOC) ==
    [ID |-> id, Name |-> name, IsInOC |-> inOC,
     LastAction |-> [Status |-> "Offline", Relative |-> "1 hour ago"]]

\* the reducer specification: every list of at most MaxCrimes of these records
ReduceSlots == {MkSlot(1, posA, 50), MkSlot(1, posA, 75), MkSlot(0, posA, 50)}

ReduceSlotLists ==
    {<< >>} \cup {<<s>> : s \in ReduceSlots}
            \cup {<<s, t>> : s \in ReduceSlots, t \in ReduceSlots}

ReduceTimes == {-1, 0, 1, 2}

ReduceCrimes ==
    [ID : {1}, Difficulty : {1}, ExecutedAt : ReduceTimes, Slots : ReduceSlotLists]

ReduceCrimeLists == UNION {[1..n -> ReduceCrimes] : n \in 0..MaxCrimes}

\* the fetch specification: the numbers of records the API answers with
PageSizes == {0, 47, 99, 100, 150}

FetchCrime == MkCrime(0, 1, 1, << >>)

\* the page the API answers to the k-th request: n copies of c with ids of their own
MkPage(k, n, c) == [i \in 1..n |-> [c EXCEPT !.ID = 1000 * k + i]]

\* the report specification: the names "ab", "B", "b"
Names == {<<97, 98>>, <<66>>, <<98>>}

\* every roster of at most MaxRoster members with ids 1, 2, ... in roster order
ReportRosters ==
    UNION {{[i \in 1..n |-> MkMember(i, f[i][1], f[i][2])] :
               f \in [1..n -> Names \X BOOLEAN]} : n \in 0..MaxRoster}

\* the crime histories of the report specification, each served as one short page
ReportHistories ==
    {<< >>,
     <<MkCrime(1, 2, 2, <<MkSlot(1, posB, 50), MkSlot(2, posA, 0)>>)>>,
     <<MkCrime(1, 2, 2, <<MkSlot(1, posB, 50), MkSlot(1, posA, 75)>>),
       MkCrime(2, 1, 1, <<MkSlot(1, posA, 0), MkSlot(0, posA, 50), MkSlot(9, posB, 75)>>)>>}

ReportClock == {1}

\* the filter specification: every roster of at most MaxFilterRoster members
FilterRosters == {r \in ReportRosters : Len(r) <= MaxFilterRoster}

\* the scheduler specification: rosters, pages and clock of its passes
PassRosters ==
    {<< >>, <<MkMember(1, <<97>>, TRUE)>>, <<MkMember(1, <<97>>, FALSE)>>}

\* the history is served in one short page (paging is followed in SpecFetch)
PassCrime == MkCrime(0, 1, 1, <<MkSlot(1, posA, 50)>>)

PassPageSizes == {0, 1}

PassClock == {1, 2}

Intervals == {0, 5}

-----------------------------------------------------------------------------
(* Actions *)

\* a call of runReports begins
StartPass ==
    /\ pc' = "fetchMembers"
    /\ passes' = Min(passes + 1, MaxPasses)
    /\ memberFetches' = 0
    /\ members' = << >>
    /\ selectedAll' = EmptyMap
    /\ selectedNoOC' = EmptyMap
    /\ selected' = EmptyMap
    /\ offset' = 0
    /\ all' = << >>
    /\ requests' = << >>
    /\ fetchErr' = "nil"
    /\ crimes' = << >>
    /\ statsAll' = EmptyMap
    /\ target' = FirstTarget(bothFlag, allFlag)
    /\ lines' = NoLines
    /\ stdout' = << >>
    /\ sinkCalls' = << >>
    /\ UNCHANGED <<flagVars, sheet>>

\* main: --all and --both cannot be used together
ConfigError ==
    /\ pc = "main"
    /\ bothFlag /\ allFlag
    /\ pc' = "exited"
    /\ UNCHANGED <<flagVars, tickPending, passes, memberFetches, selVars, fetchVars,
                   statsAll, target, outVars>>

\* main: first run
FirstRun ==
    /\ pc = "main"
    /\ ~(bothFlag /\ allFlag)
    /\ StartPass
    /\ UNCHANGED tickPending

\* runReports: fetchMembers succeeds with `roster`; the selections are built and
\* the pass ends with the no-match line or goes on to fetch the crimes
FetchMembersOk(roster) ==
    /\ pc = "fetchMembers"
    /\ memberFetches' = memberFetches + 1
    /\ members' = roster
    /\ selectedAll' = SelectAll(roster)
    /\ selectedNoOC' = SelectNoOC(roster)
    /\ selected' = Selected(bothFlag, allFlag, selectedAll', selectedNoOC')
    /\ IF EmptyShortCircuit(selected', bothFlag)
         THEN /\ stdout' = Append(stdout, NoMatchLine)
              /\ pc' = "returned"
         ELSE /\ pc' = "fetchPage"
              /\ UNCHANGED stdout
    /\ UNCHANGED <<flagVars, tickPending, passes, fetchVars, statsAll, target,
                   lines, sheet, sinkCalls>>

\* runReports: fetchMembers fails; the error is logged and the pass returns
FetchMembersFail(err) ==
    /\ pc = "fetchMembers"
    /\ memberFetches' = memberFetches + 1
    /\ fetchErr' = err
    /\ pc' = AfterFailure
    /\ UNCHANGED <<flagVars, tickPending, passes, selVars, offset, all, requests,
                   crimes, statsAll, target, outVars>>

\* fetchAllCrimes: one iteration of the loop whose request succeeds with `page`;
\* a short page ends the loop and runReports goes on with the reducer
FetchPageOk(page) ==
    /\ pc = "fetchPage"
    /\ Len(requests) < MaxRequests
    /\ requests' = Append(requests, [offset |-> offset, status |-> "ok",
                                     count |-> Len(page)])
    /\ all' = all \o page
    /\ IF Len(page) < pageSize
         THEN /\ crimes' = all'
              /\ pc' = "reduce"
              /\ UNCHANGED offset
         ELSE /\ offset' = NextOffset(offset, page)
              /\ UNCHANGED <<crimes, pc>>
    /\ UNCHANGED <<flagVars, tickPending, passes, memberFetches, selVars, fetchErr,
                   statsAll, target, outVars>>

\* fetchAllCrimes: one iteration of the loop whose request fails; the error is
\* returned, runReports logs it and returns
FetchPageFail(err) ==
    /\ pc = "fetchPage"
    /\ Len(requests) < MaxRequests
    /\ requests' = Append(requests, [offset |-> offset, status |-> err, count |-> 0])
    /\ crimes' = ResultOnFailure(all)
    /\ fetchErr' = err
    /\ pc' = AfterFailure
    /\ UNCHANGED <<flagVars, tickPending, passes, memberFetches, selVars, offset,
                   all, statsAll, target, outVars>>

\* runReports: statsAll is built from crimes
ReduceAll ==
    /\ pc = "reduce"
    /\ statsAll' = Reduce(crimes)
    /\ pc' = "render"
    /\ UNCHANGED <<flagVars, tickPending, passes, memberFetches, selVars, fetchVars,
                   target, outVars>>

\* runReports, --both to stdout: the two reports are printed under their titles
PrintBoth(now1, now2) ==
    /\ pc = "render"
    /\ outputDest = "stdout"
    /\ bothFlag
    /\ \E l1 \in generateReportLines(selectedNoOC, statsAll, now1) :
       \E l2 \in generateReportLines(selectedAll, statsAll, now2) :
          /\ lines' = [noc |-> l1, all |-> l2]
          /\ stdout' = stdout \o <<TextLine("=== Members not in OC ===")>> \o l1
                              \o <<BlankLine, TextLine("=== All Members ===")>> \o l2
    /\ target' = "all"
    /\ pc' = "returned"
    /\ UNCHANGED <<flagVars, tickPending, passes, memberFetches, selVars, fetchVars,
                   statsAll, sheet, sinkCalls>>

\* runReports, one report to stdout: printReport(selected, statsAll)
PrintSingle(now) ==
    /\ pc = "render"
    /\ outputDest = "stdout"
    /\ ~bothFlag
    /\ \E l \in generateReportLines(selected, statsAll, now) :
          /\ lines' = [lines EXCEPT ![target] = l]
          /\ stdout' = stdout \o l
    /\ pc' = "returned"
    /\ UNCHANGED <<flagVars, tickPending, passes, memberFetches, selVars, fetchVars,
                   statsAll, target, sheet, sinkCalls>>

\* runReports, output to sheets: buildSheetRows for the report being emitted
BuildRows(now) ==
    /\ pc = "render"
    /\ outputDest = "sheets"
    /\ \E l \in generateReportLines(
                   SelectionOf(target, bothFlag, selected, selectedAll, selectedNoOC),
                   statsAll, now) :
          lines' = [lines EXCEPT ![target] = l]
    /\ pc' = "clear"
    /\ UNCHANGED <<flagVars, tickPending, passes, memberFetches, selVars, fetchVars,
                   statsAll, target, stdout, sheet, sinkCalls>>

\* runReports: sheetsClient.ClearRange on the range of the report; an error is
\* logged and the write follows in either case
ClearRange(ok) ==
    /\ pc = "clear"
    /\ sinkCalls' = Append(sinkCalls, [op |-> "clear", range |-> target, ok |-> ok,
                                       before |-> sheet[target]])
    /\ sheet' = IF ok THEN [sheet EXCEPT ![target] = Cleared(sheet[target])] ELSE sheet
    /\ pc' = AfterClear(ok)
    /\ UNCHANGED <<flagVars, tickPending, passes, memberFetches, selVars, fetchVars,
                   statsAll, target, lines, stdout>>

\* runReports: sheetsClient.UpdateRange with the rows of the report; in --both
\* the all-members report follows the not-in-OC report
UpdateRange(ok) ==
    /\ pc = "write"
    /\ sinkCalls' = Append(sinkCalls, [op |-> "update", range |-> target, ok |-> ok,
                                       before |-> sheet[target]])
    /\ sheet' = IF ok
                  THEN [sheet EXCEPT
                          ![target] = Updated(sheet[target], buildSheetRows(lines[target]))]
                  ELSE sheet
    /\ IF bothFlag /\ target = "noc"
         THEN /\ target' = "all"
              /\ pc' = "render"
         ELSE /\ pc' = "returned"
              /\ UNCHANGED target
    /\ UNCHANGED <<flagVars, tickPending, passes, memberFetches, selVars, fetchVars,
                   statsAll, lines, stdout>>

\* the ticker exists once the first run has returned with a positive interval
TickerRunning ==
    /\ interval > 0
    /\ passes > 1 \/ (passes = 1 /\ pc = "returned")

\* time.Ticker: a tick is put into ticker.C, which holds one tick; ticks that
\* find it full are dropped
TickerFire ==
    /\ TickerRunning
    /\ ~tickPending
    /\ tickPending' = TRUE
    /\ UNCHANGED <<pc, flagVars, passes, memberFetches, selVars, fetchVars,
                   statsAll, target, outVars>>

\* mutant: a tick starts a pass wherever the running pass stands
ReceivesDuringPass(p) == p \notin {"main", "exited"}

\* main receives from ticker.C only between two calls of runReports
AtReceive(p) == p = "returned"

\* main: for range ticker.C { runReports() }
ReceiveTick ==
    /\ AtReceive(pc)
    /\ interval > 0
    /\ tickPending
    /\ tickPending' = FALSE
    /\ StartPass

\* main: interval 0, main returns after the first run
Exit ==
    /\ pc = "returned"
    /\ interval = 0
    /\ pc' = "exited"
    /\ UNCHANGED <<flagVars, tickPending, passes, memberFetches, selVars, fetchVars,
                   statsAll, target, outVars>>

-----------------------------------------------------------------------------
(* Specifications *)

\* the state of a pass that has not fetched anything yet
FreshPass ==
    /\ memberFetches = 0
    /\ members = << >>
    /\ selectedAll = EmptyMap
    /\ selectedNoOC = EmptyMap
    /\ selected = EmptyMap
    /\ offset = 0
    /\ all = << >>
    /\ requests = << >>
    /\ fetchErr = "nil"
    /\ crimes = << >>
    /\ statsAll = EmptyMap
    /\ lines = NoLines
    /\ stdout = << >>
    /\ sinkCalls = << >>
    /\ sheet = [t \in Targets |-> << >>]
    /\ tickPending = FALSE

\* main from the parsed flags on, with the scheduler
Init ==
    /\ pc = "main"
    /\ allFlag \in BOOLEAN
    /\ bothFlag \in BOOLEAN
    /\ outputDest \in {"stdout", "sheets"}
    /\ interval \in Intervals
    /\ passes = 0
    /\ target = FirstTarget(bothFlag, allFlag)
    /\ FreshPass

FetchMembersPass == \E roster \in PassRosters : FetchMembersOk(roster)

FetchMembersError == \E err \in FetchFailures : FetchMembersFail(err)

FetchPagePass ==
    \E n \in PassPageSizes : FetchPageOk(MkPage(Len(requests) + 1, n, PassCrime))

FetchPageError == \E err \in FetchFailures : FetchPageFail(err)

PrintBothPass == \E now \in PassClock : PrintBoth(now, now)

PrintSinglePass == \E now \in PassClock : PrintSingle(now)

BuildRowsPass == \E now \in PassClock : BuildRows(now)

ClearRangeAny == \E ok \in BOOLEAN : ClearRange(ok)

UpdateRangeAny == \E ok \in BOOLEAN : UpdateRange(ok)

Next ==
    \/ ConfigError
    \/ FirstRun
    \/ FetchMembersPass
    \/ FetchMembersError
    \/ FetchPagePass
    \/ FetchPageError
    \/ ReduceAll
    \/ PrintBothPass
    \/ PrintSinglePass
    \/ BuildRowsPass
    \/ ClearRangeAny
    \/ UpdateRangeAny
    \/ TickerFire
    \/ ReceiveTick
    \/ Exit

Spec == Init /\ [][Next]_vars

\* the ticker keeps firing and main keeps receiving from ticker.C
FairSpec == Spec /\ WF_vars(TickerFire) /\ WF_vars(ReceiveTick)

\* the reducer on every bounded crime list
InitReduce ==
    /\ pc = "reduce"
    /\ allFlag = FALSE
    /\ bothFlag = FALSE
    /\ outputDest = "stdout"
    /\ interval = 0
    /\ passes = 1
    /\ target = "noc"
    /\ memberFetches = 1
    /\ members = << >>
    /\ selectedAll = EmptyMap
    /\ selectedNoOC = EmptyMap
    /\ selected = EmptyMap
    /\ offset = 0
    /\ all = << >>
    /\ requests = << >>
    /\ fetchErr = "nil"
    /\ crimes \in ReduceCrimeLists
    /\ statsAll = EmptyMap
    /\ lines = NoLines
    /\ stdout = << >>
    /\ sinkCalls = << >>
    /\ sheet = [t \in Targets |-> << >>]
    /\ tickPending = FALSE

NextReduce == ReduceAll

SpecReduce == InitReduce /\ [][NextReduce]_vars

\* fetchAllCrimes against every bounded sequence of answers
InitFetch ==
    /\ pc = "fetchPage"
    /\ allFlag = FALSE
    /\ bothFlag = FALSE
    /\ outputDest = "stdout"
    /\ interval = 0
    /\ passes = 1
    /\ target = "noc"
    /\ FreshPass

FetchOk == \E n \in PageSizes : FetchPageOk(MkPage(Len(requests) + 1, n, FetchCrime))

FetchFail == \E err \in FetchFailures : FetchPageFail(err)

NextFetch == FetchOk \/ FetchFail

SpecFetch == InitFetch /\ [][NextFetch]_vars

\* one pass to stdout over every bounded roster: selection, reduction, rendering
InitReport ==
    /\ pc = "fetchMembers"
    /\ allFlag \in BOOLEAN
    /\ bothFlag \in BOOLEAN
    /\ ~(allFlag /\ bothFlag)
    /\ outputDest = "stdout"
    /\ interval = 0
    /\ passes = 1
    /\ target = FirstTarget(bothFlag, allFlag)
    /\ FreshPass

FetchMembersReport == \E roster \in ReportRosters : FetchMembersOk(roster)

FetchPageReport == \E page \in ReportHistories : FetchPageOk(page)

PrintBothReport == \E now \in ReportClock : PrintBoth(now, now)

PrintSingleReport == \E now \in ReportClock : PrintSingle(now)

NextReport ==
    \/ FetchMembersReport
    \/ FetchPageReport
    \/ ReduceAll
    \/ PrintBothReport
    \/ PrintSingleReport

SpecReport == InitReport /\ [][NextReport]_vars

\* one pass to stdout over the rosters on which the two reducers are compared
FetchMembersFilter == \E roster \in FilterRosters : FetchMembersOk(roster)

NextFilter ==
    \/ FetchMembersFilter
    \/ FetchPageReport
    \/ ReduceAll
    \/ PrintBothReport
    \/ PrintSingleReport

SpecFilter == InitReport /\ [][NextFilter]_vars

-----------------------------------------------------------------------------
(* Properties of the reducer *)

\* the slots of crime c that fill the triple (uid, d, p)
SlotsFor(c, uid, d, p) ==
    {k \in 1..Len(c.Slots) :
        /\ c.Difficulty = d
        /\ c.Slots[k].User.ID = uid
        /\ c.Slots[k].Position = p}

\* the records of cs that contain a slot for the triple
Contributors(cs, uid, d, p) == {i \in 1..Len(cs) : SlotsFor(cs[i], uid, d, p) # {}}

\* the largest ExecutedAt among the records contributing to the triple
MaxExecutedAt(cs, uid, d, p) ==
    MaxOf({cs[i].ExecutedAt : i \in Contributors(cs, uid, d, p)})

\* the pass rates that the records with ExecutedAt = m hold for the triple
RatesAt(cs, uid, d, p, m) ==
    UNION {{cs[i].Slots[k].CheckpointPassRate : k \in SlotsFor(cs[i], uid, d, p)} :
              i \in {j \in Contributors(cs, uid, d, p) : cs[j].ExecutedAt = m}}

Present(stats, uid, d, p) ==
    /\ uid \in DOMAIN stats
    /\ d \in DOMAIN stats[uid]
    /\ p \in DOMAIN stats[uid][d]

\* the triples present in a statistics index
PresentTriples(stats) ==
    UNION {UNION {{<<u, d, p>> : p \in DOMAIN stats[u][d]} : d \in DOMAIN stats[u]} :
              u \in DOMAIN stats}

\* the timestamps of the records contributing to the triple are pairwise distinct
DistinctTimes(cs, uid, d, p) ==
    \A i, j \in Contributors(cs, uid, d, p) :
        i # j => cs[i].ExecutedAt # cs[j].ExecutedAt

\* the list cs in the order given by the permutation f of its indices
Permuted(cs, f) == [i \in 1..Len(cs) |-> cs[f[i]]]

\* C1 as stated: for every triple present after the fold, the stored ExecutedAt
\* is the largest ExecutedAt of the records with a slot for the triple and the
\* stored Rate is a pass rate of such a record, also for timestamps <= 0.
C1_MaxOfAllRecords ==
    pc = "render" =>
        \A t \in PresentTriples(statsAll) :
            LET st == statsAll[t[1]][t[2]][t[3]]
                m  == MaxExecutedAt(crimes, t[1], t[2], t[3])
            IN  /\ Contributors(crimes, t[1], t[2], t[3]) # {}
                /\ st.ExecutedAt = m
                /\ st.Rate \in RatesAt(crimes, t[1], t[2], t[3], m)

\* C1 amended: when the largest ExecutedAt of the contributing records is
\* positive the entry holds it together with a pass rate of such a record;
\* when it is 0 or negative the entry is the zero entry (Rate 0, ExecutedAt 0).
C1_MaxOfPositiveRecords ==
    pc = "render" =>
        \A t \in PresentTriples(statsAll) :
            LET st == statsAll[t[1]][t[2]][t[3]]
                m  == MaxExecutedAt(crimes, t[1], t[2], t[3])
            IN  /\ Contributors(crimes, t[1], t[2], t[3]) # {}
                /\ IF m > 0
                     THEN /\ st.ExecutedAt = m
                          /\ st.Rate \in RatesAt(crimes, t[1], t[2], t[3], m)
                     ELSE st = ZeroRateInfo

\* a triple filled by two records with different positive and non-positive
\* timestamps and different pass rates has been folded
C1_Witness ==
    /\ pc = "render"
    /\ \E t \in PresentTriples(statsAll) :
          /\ Cardinality({crimes[i].ExecutedAt :
                            i \in Contributors(crimes, t[1], t[2], t[3])}) >= 2
          /\ statsAll[t[1]][t[2]][t[3]].ExecutedAt = 2
          /\ statsAll[t[1]][t[2]][t[3]].Rate = 75
          /\ \E i \in Contributors(crimes, t[1], t[2], t[3]) :
                \E k \in SlotsFor(crimes[i], t[1], t[2], t[3]) :
                    crimes[i].Slots[k].CheckpointPassRate = 50

\* C2 as stated: for a triple whose contributing records have pairwise
\* distinct timestamps, the entry holds the timestamp and a pass rate of the
\* record with the largest one, and every processing order gives that entry.
C2_LatestWinsAnyOrder ==
    pc = "render" =>
        \A t \in PresentTriples(statsAll) :
            DistinctTimes(crimes, t[1], t[2], t[3]) =>
                LET st == statsAll[t[1]][t[2]][t[3]]
                    m  == MaxExecutedAt(crimes, t[1], t[2], t[3])
                IN  /\ st.ExecutedAt = m
                    /\ st.Rate \in RatesAt(crimes, t[1], t[2], t[3], m)
                    /\ \A f \in Permutations(1..Len(crimes)) :
                          LET r == Reduce(Permuted(crimes, f))
                          IN  /\ Present(r, t[1], t[2], t[3])
                              /\ r[t[1]][t[2]][t[3]] = st

\* C2 amended: as C2, the entry reflecting the record with the largest
\* timestamp when that timestamp is positive and being the zero entry
\* otherwise; in both cases every processing order gives the same entry.
C2_LatestPositiveWinsAnyOrder ==
    pc = "render" =>
        \A t \in PresentTriples(statsAll) :
            DistinctTimes(crimes, t[1], t[2], t[3]) =>
                LET st == statsAll[t[1]][t[2]][t[3]]
                    m  == MaxExecutedAt(crimes, t[1], t[2], t[3])
                IN  /\ IF m > 0
                         THEN /\ st.ExecutedAt = m
                              /\ st.Rate \in RatesAt(crimes, t[1], t[2], t[3], m)
                         ELSE st = ZeroRateInfo
                    /\ \A f \in Permutations(1..Len(crimes)) :
                          LET r == Reduce(Permuted(crimes, f))
                          IN  /\ Present(r, t[1], t[2], t[3])
                              /\ r[t[1]][t[2]][t[3]] = st

\* two records fill one triple with timestamps 1 and 2 and rates 75 and 50,
\* the later record being processed first
C2_Witness ==
    /\ pc = "render"
    /\ Len(crimes) = 2
    /\ crimes[1].ExecutedAt = 2
    /\ crimes[2].ExecutedAt = 1
    /\ crimes[1].Slots = <<MkSlot(1, posA, 50)>>
    /\ crimes[2].Slots = <<MkSlot(1, posA, 75)>>
    /\ statsAll[1][1][posA] = [Rate |-> 50, ExecutedAt |-> 2]

-----------------------------------------------------------------------------
(* Properties of fetchAllCrimes *)

\* the records of the pages received, in request order
RECURSIVE PagesReceived(_, _)
PagesReceived(reqs, k) ==
    IF k > Len(reqs)
      THEN << >>
      ELSE MkPage(k, reqs[k].count, FetchCrime) \o PagesReceived(reqs, k + 1)

\* C3: the k-th request (counting from 0) uses offset 100*k whatever the
\* earlier pages held, no request follows a page of fewer than 100 records,
\* the fetch returns right after the first such page, and it returns the
\* pages received, concatenated in request order.
C3_OffsetsAndConcatenation ==
    /\ \A k \in 1..Len(requests) : requests[k].offset = 100 * (k - 1)
    /\ \A k \in 1..(Len(requests) - 1) :
          requests[k].status = "ok" /\ requests[k].count >= 100
    /\ (Len(requests) > 0 /\ requests[Len(requests)].status = "ok"
          /\ requests[Len(requests)].count < 100) => pc = "reduce"
    /\ pc = "reduce" =>
          /\ Len(requests) > 0
          /\ requests[Len(requests)].status = "ok"
          /\ requests[Len(requests)].count < 100
          /\ fetchErr = "nil"
          /\ crimes = PagesReceived(requests, 1)

\* pages of 100, 100 and 47 records: 3 requests at 0, 100, 200 and 247 records
C3_Witness ==
    /\ pc = "reduce"
    /\ [k \in 1..Len(requests) |-> requests[k].count] = <<100, 100, 47>>
    /\ [k \in 1..Len(requests) |-> requests[k].offset] = <<0, 100, 200>>
    /\ Len(crimes) = 247

\* pages of 100, 100, 100 and 0 records: 4 requests and 300 records
C3_WitnessEmptyLastPage ==
    /\ pc = "reduce"
    /\ [k \in 1..Len(requests) |-> requests[k].count] = <<100, 100, 100, 0>>
    /\ Len(crimes) = 300

\* C4: a failed page request ends the fetch: the fetch returns the error and
\* no records, whatever earlier pages held, and no request follows the failed one.
C4_FailureDiscardsAndStops ==
    \A k \in 1..Len(requests) :
        requests[k].status # "ok" =>
            /\ k = Len(requests)
            /\ pc = "returned"
            /\ fetchErr = requests[k].status
            /\ crimes = << >>

\* the third request fails after two full pages have been accumulated
C4_Witness ==
    /\ pc = "returned"
    /\ Len(requests) = 3
    /\ requests[3].status = "status"
    /\ Len(all) = 200
    /\ crimes = << >>

-----------------------------------------------------------------------------
(* Properties of the member selection *)

UniqueIds(roster) ==
    \A i, j \in 1..Len(roster) : roster[i].ID = roster[j].ID => i = j

\* fetchMembers of this pass has returned the roster
RosterFetched ==
    /\ memberFetches >= 1
    /\ ~(fetchErr # "nil" /\ requests = << >>)

IsMemberLine(l) == l.kind = "member"

\* the member summary lines of a line sequence, in their order
MemberLinesOf(ls) == SelectSeq(ls, IsMemberLine)

\* the ids on the member summary lines of a line sequence
MemberIdsOf(ls) == {MemberLinesOf(ls)[k].id : k \in 1..Len(MemberLinesOf(ls))}

\* C5: for a roster with unique ids the all-members selection holds exactly
\* the roster's members and the not-in-OC selection exactly those with IsInOC
\* false; --all reports the first, the default mode the second, --both both,
\* all from the one fetchMembers call of the pass.
C5_Selections ==
    (RosterFetched /\ UniqueIds(members)) =>
        /\ memberFetches = 1
        /\ DOMAIN selectedAll = {members[i].ID : i \in 1..Len(members)}
        /\ \A i \in 1..Len(members) : selectedAll[members[i].ID] = members[i]
        /\ DOMAIN selectedNoOC =
              {members[i].ID : i \in {j \in 1..Len(members) : ~members[j].IsInOC}}
        /\ \A i \in 1..Len(members) :
              ~members[i].IsInOC => selectedNoOC[members[i].ID] = members[i]
        /\ selected = (IF allFlag /\ ~bothFlag THEN selectedAll ELSE selectedNoOC)
        /\ lines["all"] # << >> =>
              /\ allFlag \/ bothFlag
              /\ MemberIdsOf(lines["all"]) = DOMAIN selectedAll
        /\ lines["noc"] # << >> =>
              /\ ~allFlag
              /\ MemberIdsOf(lines["noc"]) = DOMAIN selectedNoOC
        /\ (bothFlag /\ pc = "returned" /\ fetchErr = "nil") =>
              lines["all"] # << >> /\ lines["noc"] # << >>

\* --both on a roster of three members of which one is enrolled: the reports
\* show two and three members
C5_Witness ==
    /\ pc = "returned"
    /\ bothFlag
    /\ Len(members) = 3
    /\ Cardinality({i \in 1..3 : members[i].IsInOC}) = 1
    /\ Cardinality(MemberIdsOf(lines["noc"])) = 2
    /\ Cardinality(MemberIdsOf(lines["all"])) = 3

-----------------------------------------------------------------------------
(* Properties of the pass and of the scheduler *)

PassOver == pc \in {"returned", "exited"}

\* the clear and the write of a report's range have both been called, in order
Emitted(t) ==
    \E i, j \in 1..Len(sinkCalls) :
        /\ i < j
        /\ sinkCalls[i].op = "clear" /\ sinkCalls[i].range = t
        /\ sinkCalls[j].op = "update" /\ sinkCalls[j].range = t

HasLine(ls, l) == \E k \in 1..Len(ls) : ls[k] = l

\* C6: a single-mode pass with an empty selection prints the no-match line and
\* nothing else, requests no crime history and calls neither ClearRange nor
\* UpdateRange; a --both pass with an empty not-in-OC selection does not end
\* there: it requests the crime history and, the fetch succeeding, emits both
\* reports.
C6_EmptySelection ==
    /\ (RosterFetched /\ ~bothFlag /\ DOMAIN selected = {}) =>
          /\ PassOver
          /\ stdout = <<NoMatchLine>>
          /\ requests = << >>
          /\ sinkCalls = << >>
          /\ lines = NoLines
    /\ (RosterFetched /\ bothFlag /\ ~allFlag /\ DOMAIN selectedNoOC = {}) =>
          /\ ~HasLine(stdout, NoMatchLine)
          /\ PassOver => requests # << >>
          /\ (PassOver /\ fetchErr = "nil") =>
                /\ lines["noc"] # << >> /\ lines["all"] # << >>
                /\ IF outputDest = "stdout"
                     THEN /\ HasLine(stdout, TextLine("=== Members not in OC ==="))
                          /\ HasLine(stdout, TextLine("=== All Members ==="))
                     ELSE Emitted("noc") /\ Emitted("all")

\* a default-mode pass writing to sheets finds every member enrolled
C6_Witness ==
    /\ pc = "returned"
    /\ ~bothFlag /\ ~allFlag
    /\ outputDest = "sheets"
    /\ Len(members) = 1
    /\ DOMAIN selected = {}
    /\ stdout = <<NoMatchLine>>

\* a --both pass whose only member is enrolled has emitted both reports
C6_WitnessBoth ==
    /\ pc = "returned"
    /\ bothFlag
    /\ outputDest = "sheets"
    /\ Len(members) = 1
    /\ DOMAIN selectedNoOC = {}
    /\ Emitted("noc") /\ Emitted("all")

\* C7: with a positive interval every pass that has returned, failed or not,
\* is followed by the start of another pass and main never exits; with
\* interval 0 one pass is run and no second one.
C7_SchedulerSurvivesFailures ==
    /\ []((interval > 0 /\ pc = "returned") => <>(pc = "fetchMembers"))
    /\ []((interval > 0 /\ passes >= 1) => pc # "exited")
    /\ [](interval = 0 => passes <= 1)
    /\ []((interval = 0 /\ pc = "exited" /\ ~(allFlag /\ bothFlag)) => passes = 1)

\* a pass started by a tick has failed in a fetch
C7_Witness ==
    /\ interval > 0
    /\ passes >= 2
    /\ pc = "returned"
    /\ fetchErr # "nil"

\* a pass started by a tick has failed to clear and to write a range
C7_WitnessSink ==
    /\ interval > 0
    /\ passes >= 2
    /\ pc = "returned"
    /\ \E i \in 1..Len(sinkCalls) : ~sinkCalls[i].ok

-----------------------------------------------------------------------------
(* Properties of generateReportLines *)

\* the position in the roster of the member with the given id
RosterIndex(id) == CHOOSE i \in 1..Len(members) : members[i].ID = id

\* C8: the member summary lines of every report stand in ascending order of
\* the lower-cased names.
C8_NamesAscendingIgnoringCase ==
    \A t \in Targets :
        LET ms == MemberLinesOf(lines[t])
        IN  \A i, j \in 1..Len(ms) :
                i < j => ~StrLess(ToLower(ms[j].name), ToLower(ms[i].name))

\* "ab" is reported before "B", which bytewise order would put first
C8_Witness ==
    \E t \in Targets :
        LET ms == MemberLinesOf(lines[t])
        IN  /\ Len(ms) >= 2
            /\ ms[1].name = <<97, 98>>
            /\ ms[2].name = <<66>>

\* C9: members whose names are equal ignoring case are reported in their
\* roster order, and the lines of a report are determined by the selection,
\* the index and the clock.
C9_TiesInRosterOrder ==
    \A t \in Targets :
        LET ms == MemberLinesOf(lines[t])
        IN  /\ \A i, j \in 1..Len(ms) :
                  (i < j /\ ToLower(ms[i].name) = ToLower(ms[j].name)) =>
                      RosterIndex(ms[i].id) < RosterIndex(ms[j].id)
            /\ lines[t] # << >> =>
                  \A other \in generateReportLines(
                                  IF t = "all" THEN selectedAll ELSE selectedNoOC,
                                  statsAll, lines[t][1].at) : other = lines[t]

\* C10 as stated: the first member summary line follows the header directly
\* and one blank line stands before each later member block.
C10_NoBlankBeforeFirst ==
    \A t \in Targets :
        LET ls == lines[t]
        IN  Len(MemberLinesOf(ls)) > 0 =>
                /\ ls[1].kind = "header"
                /\ ls[2].kind = "member"
                /\ \A k \in 3..Len(ls) :
                      /\ ls[k].kind = "member" => ls[k - 1].kind = "blank"
                      /\ ls[k].kind = "blank" => k < Len(ls) /\ ls[k + 1].kind = "member"

\* C10 amended: one blank line stands before every member block, the first
\* included: the line after the header is blank, every member summary line
\* follows a blank line and every blank line is followed by a summary line.
C10_BlankBeforeEveryBlock ==
    \A t \in Targets :
        LET ls == lines[t]
        IN  ls # << >> =>
                /\ ls[1].kind = "header"
                /\ \A k \in 2..Len(ls) :
                      /\ ls[k].kind # "header"
                      /\ ls[k].kind = "member" => ls[k - 1].kind = "blank"
                      /\ ls[k].kind = "blank" => k < Len(ls) /\ ls[k + 1].kind = "member"
                /\ Len(MemberLinesOf(ls)) > 0 => ls[2].kind = "blank"

\* a report with three member blocks, one of them with statistics lines
C10_Witness ==
    \E t \in Targets :
        /\ Len(MemberLinesOf(lines[t])) = 3
        /\ \E k \in 1..Len(lines[t]) : lines[t][k].kind = "position"

\* the last line of the given kind at or before line k
LastOfKind(ls, k, kind) == MaxOf({j \in 1..k : ls[j].kind = kind})

\* the id on the member summary line that heads the block of line k
OwnerOf(ls, k) == ls[LastOfKind(ls, k, "member")].id

\* the difficulty on the difficulty line that heads the group of line k
DifficultyOf(ls, k) == ls[LastOfKind(ls, k, "difficulty")].difficulty

\* C11: every position line of a report stands for the entry stored for its
\* member, difficulty and position; a stored rate of 0 is shown as the dash
\* with no percentage and no timestamp, any other stored rate as that
\* percentage with the stored ExecutedAt, and no line shows a rate of 0.
C11_DashForZeroRate ==
    \A t \in Targets :
        LET ls == lines[t]
        IN  \A k \in 1..Len(ls) :
                ls[k].kind = "position" =>
                    LET id == OwnerOf(ls, k)
                        d  == DifficultyOf(ls, k)
                        p  == ls[k].position
                    IN  /\ Present(statsAll, id, d, p)
                        /\ IF statsAll[id][d][p].Rate = 0
                             THEN /\ ls[k].shown = "-"
                                  /\ DOMAIN ls[k] = {"kind", "position", "shown"}
                             ELSE /\ ls[k].shown = "rate"
                                  /\ ls[k].percent = statsAll[id][d][p].Rate
                                  /\ ls[k].executedAt = statsAll[id][d][p].ExecutedAt
                        /\ ls[k].shown = "rate" => ls[k].percent # 0

\* a report shows a rate of 50 with its timestamp and a dash for an entry
\* stored with rate 0 and a positive ExecutedAt
C11_Witness ==
    \E t \in Targets :
        LET ls == lines[t]
        IN  \E k, n \in 1..Len(ls) :
                /\ ls[k].kind = "position" /\ ls[k].shown = "rate"
                /\ ls[k].percent = 50 /\ ls[k].executedAt = 2
                /\ ls[n].kind = "position" /\ ls[n].shown = "-"
                /\ statsAll[OwnerOf(ls, n)][DifficultyOf(ls, n)][ls[n].position]
                      = [Rate |-> 0, ExecutedAt |-> 2]

-----------------------------------------------------------------------------
(* Properties of the emission to the sheets *)

SinkCall(op, t) == [op |-> op, range |-> t]

\* the calls a pass that emits to the sheets makes, in order
SinkPlan ==
    IF bothFlag
      THEN <<SinkCall("clear", "noc"), SinkCall("update", "noc"),
             SinkCall("clear", "all"), SinkCall("update", "all")>>
      ELSE <<SinkCall("clear", FirstTarget(bothFlag, allFlag)),
             SinkCall("update", FirstTarget(bothFlag, allFlag))>>

\* the pass has fetched the roster and the history and is not ended by an
\* empty selection
PassEmits ==
    /\ memberFetches >= 1
    /\ fetchErr = "nil"
    /\ ~EmptyShortCircuit(selected, bothFlag)

\* C12: the calls made on the sheets are ClearRange and then UpdateRange on
\* the range of the report, in --both first for the not-in-OC range and then
\* for the all-members range; whether calls fail or not, a pass that emits
\* to the sheets has made every one of them when it returns.
C12_ClearThenWriteEveryTarget ==
    /\ Len(sinkCalls) <= Len(SinkPlan)
    /\ \A k \in 1..Len(sinkCalls) :
          /\ sinkCalls[k].op = SinkPlan[k].op
          /\ sinkCalls[k].range = SinkPlan[k].range
    /\ (PassOver /\ sinkCalls # << >>) => Len(sinkCalls) = Len(SinkPlan)
    /\ (PassOver /\ outputDest = "sheets" /\ PassEmits) =>
          Len(sinkCalls) = Len(SinkPlan)

\* a --both pass whose clear and write of the not-in-OC range both failed has
\* cleared and written the all-members range
C12_Witness ==
    /\ pc = "returned"
    /\ bothFlag
    /\ Len(sinkCalls) = 4
    /\ ~sinkCalls[1].ok /\ ~sinkCalls[2].ok
    /\ sinkCalls[3].ok /\ sinkCalls[4].ok

\* a single-mode pass whose clear failed has written the range
C12_WitnessSingle ==
    /\ pc = "returned"
    /\ ~bothFlag
    /\ Len(sinkCalls) = 2
    /\ ~sinkCalls[1].ok /\ sinkCalls[2].ok

\* the k-th and the next call of the pass are a successful ClearRange and a
\* successful UpdateRange on the range of report t
EmittedAt(t, k) ==
    /\ k + 1 <= Len(sinkCalls)
    /\ sinkCalls[k].op = "clear" /\ sinkCalls[k].range = t /\ sinkCalls[k].ok
    /\ sinkCalls[k + 1].op = "update" /\ sinkCalls[k + 1].range = t /\ sinkCalls[k + 1].ok

\* one single-cell row per line, in the order of the lines
OneRowPerLine(rows, ls) ==
    /\ Len(rows) = Len(ls)
    /\ \A i \in 1..Len(ls) : rows[i] = <<ls[i]>>

\* C13: a successful clear and write of a report on a range that is empty or
\* shows the rows of the same report (left by an earlier emission of the same
\* lines) leaves the range showing one single-cell row per report line in
\* report order: the second emission leaves what the first left, nothing is
\* appended.
C13_SameRowsAfterSecondEmission ==
    \A t \in Targets :
        \A k \in 1..Len(sinkCalls) :
            (EmittedAt(t, k) /\ (sinkCalls[k].before = << >>
                                   \/ OneRowPerLine(sinkCalls[k].before, lines[t]))) =>
                /\ OneRowPerLine(sheet[t], lines[t])
                /\ sinkCalls[k].before # << >> => sheet[t] = sinkCalls[k].before

\* the pass after the first has cleared and written a range that showed the
\* four rows of the same report
C13_Witness ==
    /\ passes >= 2
    /\ pc = "returned"
    /\ \E t \in Targets :
          /\ EmittedAt(t, 1)
          /\ Len(lines[t]) >= 4
          /\ OneRowPerLine(sinkCalls[1].before, lines[t])
          /\ sheet[t] = sinkCalls[1].before

-----------------------------------------------------------------------------
(* Properties of the reducer: unfilled slots and ties *)

\* C14: a slot whose member id is 0 creates no key in the index: 0 is no key
\* of the first level, and every key of every level comes from a slot with a
\* member id other than 0.
C14_NoKeysForUnfilledSlots ==
    pc = "render" =>
        /\ 0 \notin DOMAIN statsAll
        /\ \A t \in PresentTriples(statsAll) :
              /\ t[1] # 0
              /\ Contributors(crimes, t[1], t[2], t[3]) # {}

\* the slots of the records of cs in the order the reducer processes them,
\* each with its record
SlotSteps(cs) ==
    Flatten([i \in 1..Len(cs) |->
                [k \in 1..Len(cs[i].Slots) |-> [crime |-> cs[i], slot |-> cs[i].Slots[k]]]])

\* the index after the first n slots have been processed
RECURSIVE FoldSteps(_, _)
FoldSteps(steps, n) ==
    IF n = 0
      THEN EmptyMap
      ELSE FoldSlot(FoldSteps(steps, n - 1), steps[n].crime, steps[n].slot)

\* the processing steps that fill the triple t from a record with ExecutedAt m
StepsAt(steps, t, m) ==
    {n \in 1..Len(steps) :
        /\ steps[n].slot.User.ID = t[1]
        /\ steps[n].crime.Difficulty = t[2]
        /\ steps[n].slot.Position = t[3]
        /\ steps[n].crime.ExecutedAt = m}

MinOf(S) == CHOOSE m \in S : \A x \in S : m <= x

-----------------------------------------------------------------------------
(* Properties of a failed pass *)

\* the last crime-history request of the pass failed
HistoryFetchFailed ==
    /\ requests # << >>
    /\ requests[Len(requests)].status # "ok"

\* C16: a pass whose roster fetch or history fetch failed has printed no
\* line, rendered no report and called neither ClearRange nor UpdateRange;
\* after a failed roster fetch no crime-history request has been made either.
C16_FailedPassEmitsNothing ==
    fetchErr # "nil" =>
        /\ stdout = << >>
        /\ lines = NoLines
        /\ sinkCalls = << >>
        /\ statsAll = EmptyMap
        /\ ~HistoryFetchFailed =>
              /\ requests = << >>
              /\ members = << >>
              /\ selected = EmptyMap

\* a pass writing to the sheets has failed in the history fetch, the pass
\* before having left rows in a range
C16_Witness ==
    /\ pc = "returned"
    /\ passes >= 2
    /\ outputDest = "sheets"
    /\ HistoryFetchFailed
    /\ sinkCalls = << >>
    /\ \E t \in Targets : sheet[t] # << >>

\* a pass has failed in the roster fetch
C16_WitnessRoster ==
    /\ pc = "returned"
    /\ fetchErr # "nil"
    /\ memberFetches = 1
    /\ requests = << >>

-----------------------------------------------------------------------------
(* Properties of the ticker loop *)

\* a call of runReports is in progress
InPass == pc \in {"fetchMembers", "fetchPage", "reduce", "render", "clear", "write"}

passVars == <<passes, memberFetches, selVars, fetchVars, statsAll, target, outVars>>

\* C17: while a call of runReports is in progress no other call begins: the
\* pass is not started anew and none of its state is reset, and a tick that
\* fires during the pass stays in ticker.C until the pass has returned.
C17_PassesNeverOverlap ==
    [][InPass =>
          /\ pc' = "fetchMembers" => (pc = "fetchMembers" /\ UNCHANGED passVars)
          /\ memberFetches' >= memberFetches
          /\ Len(requests') >= Len(requests)
          /\ tickPending => tickPending']_vars

\* a tick is waiting in ticker.C while the second pass is fetching the history
C17_Witness ==
    /\ passes >= 2
    /\ pc = "fetchPage"
    /\ tickPending

-----------------------------------------------------------------------------
(* The single-mode reducer and the shared reducer *)

\* the index of the pass has been built
Reduced == pc \in {"render", "returned"} /\ fetchErr = "nil" /\ requests # << >>

\* C18: for both selections of the roster, the index built with the
\* membership filter and the index built over all slot member ids render to
\* the same lines under the same clock: for every order of the entries that
\* the sort can produce the two reports are equal line by line, and the
\* reports of the pass are among the reports of the filtered index.
C18_FilterDoesNotChangeReport ==
    Reduced =>
        /\ statsAll = Reduce(crimes)
        /\ \A sel \in {selectedAll, selectedNoOC} :
              LET filtered == ReduceFiltered(crimes, sel)
              IN  /\ \A entries \in SortedEntries(sel) :
                        \A now \in ReportClock :
                            ReportLines(sel, filtered, entries, now)
                                = ReportLines(sel, statsAll, entries, now)
                  /\ \A now \in ReportClock :
                        generateReportLines(sel, filtered, now)
                            = generateReportLines(sel, statsAll, now)
        /\ \A t \in Targets :
              lines[t] # << >> =>
                  LET sel == IF t = "all" THEN selectedAll ELSE selectedNoOC
                  IN  lines[t] \in generateReportLines(sel, ReduceFiltered(crimes, sel),
                                                       lines[t][1].at)

\* the history holds slots of a member outside the roster and an unfilled
\* slot, which only the unfiltered index keeps, and the report of the pass
\* shows the statistics of a selected member
C18_Witness ==
    /\ pc = "returned"
    /\ Reduced
    /\ 9 \in DOMAIN statsAll
    /\ 0 \in DOMAIN statsAll
    /\ \E t \in Targets :
          /\ \E k \in 1..Len(lines[t]) : lines[t][k].kind = "position"
          /\ Len(MemberLinesOf(lines[t])) >= 2
    /\ ReduceFiltered(crimes, selectedAll) # statsAll
    /\ ReduceFiltered(crimes, selectedNoOC) # ReduceFiltered(crimes, selectedAll)

====
